---------------------------- MODULE Spec2Model ----------------------------
(***************************************************************************)
(* Model of the time-series utilities of Deep-Learning-for-Time-Series:    *)
(*   src/src/data_preprocessing.py  contains_datetime_gaps                 *)
(*   src/src/load_data.py           load_raw_prices, load_raw_consumption, *)
(*                                  load_raw_production,                   *)
(*                                  load_raw_data_from_dir                 *)
(*                                                                         *)
(* Time is counted in ticks; a Timestamp is the number of ticks since an   *)
(* origin.  A frequency is a positive number of ticks.                     *)
(***************************************************************************)
EXTENDS Integers, Sequences, FiniteSets, TLC

\* ------------------------------------------------------------------ bounds
MaxT == 3        \* instants 0..MaxT occur in the gap detector's tables
MaxRows == 3     \* rows of a table handed to contains_datetime_gaps
MaxFreq == 2     \* frequencies 1..MaxFreq
MaxCalls == 2    \* successive calls of contains_datetime_gaps on one table

\* ------------------------------------------------------------- sequences
Range(s) == {s[i] : i \in 1..Len(s)}

RECURSIVE SetMin(_)
SetMin(S) == LET x == CHOOSE y \in S : TRUE
             IN IF S = {x} THEN x
                ELSE LET m == SetMin(S \ {x}) IN IF x < m THEN x ELSE m

RECURSIVE SetMax(_)
SetMax(S) == LET x == CHOOSE y \in S : TRUE
             IN IF S = {x} THEN x
                ELSE LET m == SetMax(S \ {x}) IN IF x > m THEN x ELSE m

IsAscending(s) == \A i \in 1..Len(s) - 1 : s[i] < s[i + 1]

\* =========================================================================
\* data_preprocessing.py
\* =========================================================================

\* A cell of the datetime column as the caller holds it:
\*   kind "ts"   a timezone-aware UTC Timestamp at instant t
\*   kind "str"  a date-time string showing local time t at UTC offset off
\*   kind "junk" a string that is no date-time
TsCell(t) == [kind |-> "ts", t |-> t, off |-> 0]
StrCell(t, off) == [kind |-> "str", t |-> t, off |-> off]
JunkCell == [kind |-> "junk", t |-> 0, off |-> 0]

Instants == 0..MaxT
Offsets == {0, 1}
Cells == {TsCell(t) : t \in Instants}
           \cup {StrCell(i + o, o) : i \in Instants, o \in Offsets}
           \cup {JunkCell}

\* pd.to_datetime(value, utc=True) of one cell: the instant it denotes.
Instant(c) == c.t - c.off

Parseable(col) == \A i \in 1..Len(col) : col[i].kind # "junk"

\* pd.to_datetime(df[col], utc=True): every cell becomes a UTC Timestamp.
ToDatetimeNaive(col) == [i \in 1..Len(col) |-> TsCell(col[i].t)]

ToDatetime(col) == [i \in 1..Len(col) |-> TsCell(Instant(col[i]))]

\* df.sort_values(col): ascending, ties in their original order.
RECURSIVE InsertSorted(_, _)
InsertSorted(s, c) ==
    IF s = <<>> THEN <<c>>
    ELSE IF c.t < s[1].t THEN <<c>> \o s
    ELSE <<s[1]>> \o InsertSorted(Tail(s), c)

RECURSIVE SortValues(_)
SortValues(col) ==
    IF col = <<>> THEN <<>>
    ELSE InsertSorted(SortValues(SubSeq(col, 1, Len(col) - 1)), col[Len(col)])

ColumnTimes(col) == {col[i].t : i \in 1..Len(col)}

\* pd.date_range(start, end, freq, tz="UTC"): start, start+freq, ... <= end.
RECURSIVE DateRangeLeft(_, _, _)
DateRangeLeft(start, end, freq) ==
    IF start >= end THEN <<>>
    ELSE <<start>> \o DateRangeLeft(start + freq, end, freq)

RECURSIVE DateRange(_, _, _)
DateRange(start, end, freq) ==
    IF start > end THEN <<>>
    ELSE <<start>> \o DateRange(start + freq, end, freq)

\* full_range.difference(df[col]): the calendar values not in the column.
DifferenceByPosition(full_range, col) ==
    SelectSeq([i \in 1..Len(full_range) |->
                  IF i <= Len(col) /\ col[i].t = full_range[i]
                  THEN -1 ELSE full_range[i]],
              LAMBDA x : x # -1)

Difference(full_range, col) ==
    SelectSeq(full_range, LAMBDA x : x \notin ColumnTimes(col))

\* What one call does: the column it leaves in the caller's table (line 14
\* assigns into df before df is rebound on line 15), the calendar it builds,
\* and what it returns or raises.
GapsOutcome(col, freq) ==
    IF ~Parseable(col)
    THEN [status |-> "ParseError", column |-> col, full_range |-> <<>>,
          flag |-> FALSE, missing |-> <<>>]
    ELSE LET converted == ToDatetime(col)
             sorted == SortValues(converted)
         IN IF sorted = <<>>
            \* min() and max() of an empty column are NaT; date_range refuses NaT
            THEN [status |-> "ValueError", column |-> converted,
                  full_range |-> <<>>, flag |-> FALSE, missing |-> <<>>]
            ELSE LET full_range == DateRange(SetMin(ColumnTimes(sorted)),
                                             SetMax(ColumnTimes(sorted)), freq)
                     missing_times == Difference(full_range, sorted)
                 IN [status |-> "ok", column |-> converted,
                     full_range |-> full_range,
                     flag |-> (missing_times # <<>>),
                     missing |-> missing_times]

\* =========================================================================
\* load_data.py
\* =========================================================================
MaxRawRows == 2  \* rows of a raw table read from a directory

\* pandas' missing markers: NaT in a datetime column, NaN in a value column.
NaT == -1
NaN == "NaN"

\* ---------------------------------------------------------------- strings
\* An "MTU (UTC)" string is a sequence of tokens:
\*   Sep          the separator " - "
\*   DT(t, secs)  the text of instant t, written with seconds
\*                ("%d/%m/%Y %H:%M:%S") or without ("%d/%m/%Y %H:%M")
\*   Junk         text that is a date-time in neither format
Sep == [k |-> "sep", t |-> 0, secs |-> FALSE]
DT(t, secs) == [k |-> "dt", t |-> t, secs |-> secs]
Junk == [k |-> "junk", t |-> 0, secs |-> FALSE]
\* the None that str.split(expand=True) pads a short row with
NonePart == <<[k |-> "none", t |-> 0, secs |-> FALSE]>>

Interval(a, b, secs) == <<DT(a, secs), Sep, DT(b, secs)>>

\* Series.str.split(" - "): the parts between the separators.
RECURSIVE StrSplit(_)
StrSplit(s) ==
    IF \A i \in 1..Len(s) : s[i] # Sep THEN <<s>>
    ELSE LET i == CHOOSE n \in 1..Len(s) :
                      s[n] = Sep /\ \A m \in 1..(n - 1) : s[m] # Sep
         IN <<SubSeq(s, 1, i - 1)>> \o StrSplit(SubSeq(s, i + 1, Len(s)))

\* pd.to_datetime(value, format=..., utc=True) of one cell: None and the
\* empty string become NaT, a text in the given format its instant, and
\* anything else raises.
PartParses(part, secs) ==
    \/ part = NonePart
    \/ part = <<>>
    \/ Len(part) = 1 /\ part[1].k = "dt" /\ part[1].secs = secs

PartValue(part) ==
    IF Len(part) = 1 /\ part[1].k = "dt" THEN part[1].t ELSE NaT

\* df[["start_ts_utc", "end_ts_utc"]] =
\*     df["MTU (UTC)"].str.split(" - ", expand=True).apply(pd.to_datetime, ...)
\* expand=True gives as many columns as the longest row has parts (none for a
\* frame without rows); to_datetime runs on every column; the assignment to
\* the two keys needs exactly two columns.
ParseIntervals(mtus, secs) ==
    LET parts == [i \in 1..Len(mtus) |-> StrSplit(mtus[i])]
        ncols == IF mtus = <<>> THEN 0
                 ELSE SetMax({Len(parts[i]) : i \in 1..Len(mtus)})
        cell(i, j) == IF j <= Len(parts[i]) THEN parts[i][j] ELSE NonePart
    IN IF \E i \in 1..Len(mtus) : \E j \in 1..ncols : ~PartParses(cell(i, j), secs)
       THEN [status |-> "ParseError", keys |-> <<>>]
       ELSE IF ncols # 2
       THEN [status |-> "ValueError", keys |-> <<>>]
       ELSE [status |-> "ok",
             keys |-> [i \in 1..Len(mtus) |->
                         <<PartValue(cell(i, 1)), PartValue(cell(i, 2))>>]]

\* ---------------------------------------------------------------- sorting
\* Keys are sequences of integers of one length, compared left to right.
LexLess(a, b) ==
    \E i \in 1..Len(a) : a[i] < b[i] /\ \A j \in 1..(i - 1) : a[j] = b[j]

\* ascending with NaT last (na_position="last")
TsKey(t) == IF t = NaT THEN <<1, 0>> ELSE <<0, t>>

RECURSIVE InsertKeyed(_, _)
InsertKeyed(s, e) ==
    IF s = <<>> THEN <<e>>
    ELSE IF LexLess(e.k, s[1].k) THEN <<e>> \o s
    ELSE <<s[1]>> \o InsertKeyed(Tail(s), e)

RECURSIVE SortKeyed(_)
SortKeyed(s) ==
    IF s = <<>> THEN <<>>
    ELSE InsertKeyed(SortKeyed(SubSeq(s, 1, Len(s) - 1)), s[Len(s)])

\* rows in ascending order of keys[i], rows of equal key in their given order
StableSort(rows, keys) ==
    LET sorted == SortKeyed([i \in 1..Len(rows) |-> [k |-> keys[i], r |-> rows[i]]])
    IN [i \in 1..Len(rows) |-> sorted[i].r]

\* ------------------------------------------------------------ normalizers
Raised(what) == [status |-> what, cols |-> <<>>, rows |-> <<>>]
Frame(cols, rows) == [status |-> "ok", cols |-> cols, rows |-> rows]

MtuColumn(table) == [i \in 1..Len(table) |-> table[i].mtu]

\* load_raw_prices
LoadRawPrices(table) ==
    LET selected == SelectSeq(table, LAMBDA r : r.sequence = "Sequence Sequence 1")
        parsed == ParseIntervals(MtuColumn(selected), TRUE)
    IN IF parsed.status # "ok" THEN Raised(parsed.status)
       ELSE LET rows == [i \in 1..Len(selected) |->
                           [start_ts_utc |-> parsed.keys[i][1],
                            end_ts_utc |-> parsed.keys[i][2],
                            da_price_eur_mwh |-> selected[i].value]]
            IN Frame(<<>>, StableSort(rows, [i \in 1..Len(rows) |->
                                               TsKey(rows[i].start_ts_utc)]))

\* load_raw_consumption
LoadRawConsumption(table) ==
    LET parsed == ParseIntervals(MtuColumn(table), FALSE)
    IN IF parsed.status # "ok" THEN Raised(parsed.status)
       ELSE LET rows == [i \in 1..Len(table) |->
                           [start_ts_utc |-> parsed.keys[i][1],
                            end_ts_utc |-> parsed.keys[i][2],
                            actual_load_mw |-> table[i].value]]
            IN Frame(<<>>, StableSort(rows, [i \in 1..Len(rows) |->
                                               TsKey(rows[i].start_ts_utc)]))

\* The production types of the raw files, in the order of their labels.
ProductionTypes == <<"Biomass", "Solar", "Wind Offshore", "Wind Onshore">>
TypeRank(label) == CHOOSE n \in 1..Len(ProductionTypes) : ProductionTypes[n] = label
renewable_types == {"Solar", "Wind Offshore", "Wind Onshore"}

\* The characters of a label.
Chars(label) ==
    CASE label = "Biomass" -> <<"B", "i", "o", "m", "a", "s", "s">>
      [] label = "Solar" -> <<"S", "o", "l", "a", "r">>
      [] label = "Wind Offshore" ->
            <<"W", "i", "n", "d", " ", "O", "f", "f", "s", "h", "o", "r", "e">>
      [] label = "Wind Onshore" ->
            <<"W", "i", "n", "d", " ", "O", "n", "s", "h", "o", "r", "e">>

\* str.lower() and str.replace(" ", "_"), character by character
LowerChar(c) ==
    CASE c = "B" -> "b" [] c = "S" -> "s" [] c = "W" -> "w" [] c = "O" -> "o"
      [] OTHER -> c
Lower(str) == [i \in 1..Len(str) |-> LowerChar(str[i])]
ReplaceSpace(str) == [i \in 1..Len(str) |-> IF str[i] = " " THEN "_" ELSE str[i]]

GenerationPrefix ==
    <<"a", "c", "t", "u", "a", "l", "_", "g", "e", "n", "e", "r", "a", "t",
      "i", "o", "n", "_", "m", "w", "_">>

\* "actual_generation_mw_" + col.lower().replace(" ", "_")
ColumnNameKeepCase(label) == GenerationPrefix \o ReplaceSpace(Chars(label))

ColumnName(label) == GenerationPrefix \o ReplaceSpace(Lower(Chars(label)))

Key(r) == <<r.start_ts_utc, r.end_ts_utc>>
IndexKey(key) == TsKey(key[1]) \o TsKey(key[2])

RECURSIVE DropRepeats(_)
DropRepeats(s) ==
    IF Len(s) <= 1 THEN s
    ELSE IF s[1] = s[2] THEN DropRepeats(Tail(s))
    ELSE <<s[1]>> \o DropRepeats(Tail(s))

\* prod_df.pivot(index=[start_ts_utc, end_ts_utc], columns=production_type,
\*               values=actual_generation_mw).reset_index()
\* one row per distinct index value, one column per distinct type, both in
\* ascending order; a repeated (index, type) pair raises ValueError.
PivotPerRow(rows) ==
    LET types == SelectSeq(ProductionTypes,
                           LAMBDA ty : \E i \in 1..Len(rows) : rows[i].production_type = ty)
    IN Frame(types,
             [n \in 1..Len(rows) |->
                [start_ts_utc |-> rows[n].start_ts_utc,
                 end_ts_utc |-> rows[n].end_ts_utc,
                 gen |-> [m \in 1..Len(types) |->
                            IF rows[n].production_type = types[m]
                            THEN rows[n].actual_generation_mw ELSE NaN]]])

Pivot(rows) ==
    IF \E i, j \in 1..Len(rows) :
          i < j /\ Key(rows[i]) = Key(rows[j])
                /\ rows[i].production_type = rows[j].production_type
    THEN Raised("ValueError")
    ELSE LET keys == [i \in 1..Len(rows) |-> Key(rows[i])]
             index == DropRepeats(StableSort(keys, [i \in 1..Len(keys) |->
                                                      IndexKey(keys[i])]))
             types == SelectSeq(ProductionTypes,
                                LAMBDA ty : \E i \in 1..Len(rows) :
                                               rows[i].production_type = ty)
             value(key, ty) ==
                 IF \E i \in 1..Len(rows) :
                       Key(rows[i]) = key /\ rows[i].production_type = ty
                 THEN LET i == CHOOSE n \in 1..Len(rows) :
                                   Key(rows[n]) = key /\ rows[n].production_type = ty
                      IN rows[i].actual_generation_mw
                 ELSE NaN
         IN Frame(types,
                  [n \in 1..Len(index) |->
                     [start_ts_utc |-> index[n][1],
                      end_ts_utc |-> index[n][2],
                      gen |-> [m \in 1..Len(types) |-> value(index[n], types[m])]]])

\* load_raw_production
LoadRawProduction(table) ==
    LET parsed == ParseIntervals(MtuColumn(table), TRUE)
    IN IF parsed.status # "ok" THEN Raised(parsed.status)
       ELSE LET rows == [i \in 1..Len(table) |->
                           [start_ts_utc |-> parsed.keys[i][1],
                            end_ts_utc |-> parsed.keys[i][2],
                            production_type |-> table[i].production_type,
                            actual_generation_mw |-> table[i].value]]
                renewable == SelectSeq(rows,
                                 LAMBDA r : r.production_type \in renewable_types)
                sorted == StableSort(renewable,
                              [i \in 1..Len(renewable) |->
                                 <<TypeRank(renewable[i].production_type)>>
                                    \o TsKey(renewable[i].start_ts_utc)])
                pivoted == Pivot(sorted)
            IN IF pivoted.status # "ok" THEN pivoted
               ELSE Frame([m \in 1..Len(pivoted.cols) |-> ColumnName(pivoted.cols[m])],
                          pivoted.rows)

\* ------------------------------------------------------------------ merge
RECURSIVE Flatten(_)
Flatten(ss) == IF ss = <<>> THEN <<>> ELSE ss[1] \o Flatten(Tail(ss))

Matches(right, key) == SelectSeq(right, LAMBDA r : Key(r) = key)

\* pd.merge(prices_df, cons_df, on=[start_ts_utc, end_ts_utc], how="left")
WithLoad(p, load) ==
    [start_ts_utc |-> p.start_ts_utc, end_ts_utc |-> p.end_ts_utc,
     da_price_eur_mwh |-> p.da_price_eur_mwh, actual_load_mw |-> load]

MergeLoadInner(prices, cons) ==
    Flatten([i \in 1..Len(prices) |->
               LET m == Matches(cons, Key(prices[i]))
               IN [j \in 1..Len(m) |-> WithLoad(prices[i], m[j].actual_load_mw)]])

MergeLoad(prices, cons) ==
    Flatten([i \in 1..Len(prices) |->
               LET m == Matches(cons, Key(prices[i]))
               IN IF m = <<>> THEN <<WithLoad(prices[i], NaN)>>
                  ELSE [j \in 1..Len(m) |-> WithLoad(prices[i], m[j].actual_load_mw)]])

\* pd.merge(merged_data, prod_df, on=[start_ts_utc, end_ts_utc], how="left")
WithGeneration(l, gen) ==
    [start_ts_utc |-> l.start_ts_utc, end_ts_utc |-> l.end_ts_utc,
     da_price_eur_mwh |-> l.da_price_eur_mwh, actual_load_mw |-> l.actual_load_mw,
     gen |-> gen]

MergeGeneration(left, prod) ==
    Flatten([i \in 1..Len(left) |->
               LET m == Matches(prod.rows, Key(left[i]))
               IN IF m = <<>>
                  THEN <<WithGeneration(left[i], [c \in 1..Len(prod.cols) |-> NaN])>>
                  ELSE [j \in 1..Len(m) |-> WithGeneration(left[i], m[j].gen)]])

\* merged_data.replace(["n/e", "-"], np.nan, inplace=True); the two datetime
\* columns hold Timestamps, never strings.
ReplaceCellOnlyNE(v) == IF v = "n/e" THEN NaN ELSE v

ReplaceCell(v) == IF v \in {"n/e", "-"} THEN NaN ELSE v

Replace(rows) ==
    [i \in 1..Len(rows) |->
        [start_ts_utc |-> rows[i].start_ts_utc,
         end_ts_utc |-> rows[i].end_ts_utc,
         da_price_eur_mwh |-> ReplaceCell(rows[i].da_price_eur_mwh),
         actual_load_mw |-> ReplaceCell(rows[i].actual_load_mw),
         gen |-> [c \in 1..Len(rows[i].gen) |-> ReplaceCell(rows[i].gen[c])]]]

\* =========================================================================
\* state
\* =========================================================================
VARIABLES
    \* contains_datetime_gaps and its caller
    df,           \* the datetime column of the caller's table
    before,       \* that column as it was when the last call began
    frequency,    \* the frequency of the last call
    calls,        \* calls made on the table
    result,       \* what the last call returned or raised
    \* one normalizer called on a raw table
    fn,           \* "none", "prices", "consumption" or "production"
    raw,          \* the table read_from_dir_as_df returned to it
    norm,         \* the table it returned, or what it raised
    \* load_raw_data_from_dir
    stage,        \* how far the call has come
    prices_df, cons_df, prod_df,
    merged_data,  \* after the two merges, before replace
    output        \* the table it returns

gapVars == <<df, before, frequency, calls, result>>
normVars == <<fn, raw, norm>>
loadVars == <<stage, prices_df, cons_df, prod_df, merged_data, output>>
vars == <<df, before, frequency, calls, result, fn, raw, norm,
          stage, prices_df, cons_df, prod_df, merged_data, output>>

NoResult == [status |-> "none", column |-> <<>>, full_range |-> <<>>,
             flag |-> FALSE, missing |-> <<>>]
NoFrame == [status |-> "none", cols |-> <<>>, rows |-> <<>>]

Init ==
    /\ df = <<>>
    /\ before = <<>>
    /\ frequency = 1
    /\ calls = 0
    /\ result = NoResult
    /\ fn = "none"
    /\ raw = <<>>
    /\ norm = NoFrame
    /\ stage = "idle"
    /\ prices_df = NoFrame
    /\ cons_df = NoFrame
    /\ prod_df = NoFrame
    /\ merged_data = <<>>
    /\ output = <<>>

\* ------------------------------------------------- contains_datetime_gaps
\* The caller builds its table, one row at a time.
AppendRow ==
    /\ calls = 0
    /\ Len(df) < MaxRows
    /\ \E c \in Cells : df' = Append(df, c)
    /\ UNCHANGED <<before, frequency, calls, result>>
    /\ UNCHANGED <<normVars, loadVars>>

\* contains_datetime_gaps(df, col, frequency)
ContainsDatetimeGaps ==
    /\ calls < MaxCalls
    /\ \E f \in 1..MaxFreq :
         LET out == GapsOutcome(df, f)
         IN /\ before' = df
            /\ frequency' = f
            /\ df' = out.column
            /\ result' = out
    /\ calls' = calls + 1
    /\ UNCHANGED <<normVars, loadVars>>

Next == AppendRow \/ ContainsDatetimeGaps

Spec == Init /\ [][Next]_vars

\* ------------------------------------------------------------ raw tables
SequenceLabels == {"Sequence Sequence 1", "Sequence Sequence 2"}
PriceValues == {"10", "n/e"}
LoadValues == {"20", "-"}
GenerationValues == {"30", "n/e", "-"}

\* The "MTU (UTC)" strings of the raw files: intervals in either precision,
\* a string without separator, with a side that is no date-time, and with
\* two separators.
MTUStrings ==
    {Interval(0, 1, s) : s \in BOOLEAN} \cup {Interval(1, 2, s) : s \in BOOLEAN}
      \cup {<<DT(1, s)>> : s \in BOOLEAN}
      \cup {<<DT(0, TRUE), Sep, Junk>>,
            <<DT(0, TRUE), Sep, DT(1, TRUE), Sep, DT(2, TRUE)>>}

TablesOver(rows) == UNION {[1..n -> rows] : n \in 0..MaxRawRows}

PriceTables(mtus) ==
    TablesOver([sequence : SequenceLabels, mtu : mtus, value : PriceValues])
ConsumptionTables(mtus) ==
    TablesOver([mtu : mtus, value : LoadValues])
ProductionTables(mtus, types, values) ==
    TablesOver([mtu : mtus, production_type : types, value : values])

\* ---------------------------------------------------- one normalizer call
CallLoadRawPrices ==
    /\ fn = "none"
    /\ \E t \in PriceTables(MTUStrings) :
          /\ raw' = t
          /\ norm' = LoadRawPrices(t)
    /\ fn' = "prices"
    /\ UNCHANGED <<gapVars, loadVars>>

CallLoadRawConsumption ==
    /\ fn = "none"
    /\ \E t \in ConsumptionTables(MTUStrings) :
          /\ raw' = t
          /\ norm' = LoadRawConsumption(t)
    /\ fn' = "consumption"
    /\ UNCHANGED <<gapVars, loadVars>>

CallLoadRawProduction ==
    /\ fn = "none"
    /\ \E t \in ProductionTables(MTUStrings, Range(ProductionTypes), GenerationValues) :
          /\ raw' = t
          /\ norm' = LoadRawProduction(t)
    /\ fn' = "production"
    /\ UNCHANGED <<gapVars, loadVars>>

NextNorm == CallLoadRawPrices \/ CallLoadRawConsumption \/ CallLoadRawProduction

SpecNorm == Init /\ [][NextNorm]_vars

\* ------------------------------------------------- load_raw_data_from_dir
\* The raw files of the pipeline runs: two intervals, each source in its own
\* precision, and a few production types and values.
PipelinePriceTables ==
    TablesOver([sequence : SequenceLabels,
                mtu : {Interval(0, 1, TRUE), Interval(1, 2, TRUE)},
                value : PriceValues])
PipelineConsumptionTables ==
    ConsumptionTables({Interval(0, 1, FALSE), Interval(1, 2, FALSE)})
PipelineProductionTables ==
    ProductionTables({Interval(0, 1, TRUE), Interval(1, 2, TRUE)},
                     {"Biomass", "Solar", "Wind Offshore"}, {"30", "n/e"})

\* What the three normalizers return or raise on those files.
PipelinePriceFrames == {LoadRawPrices(t) : t \in PipelinePriceTables}
PipelineConsumptionFrames == {LoadRawConsumption(t) : t \in PipelineConsumptionTables}
PipelineProductionFrames == {LoadRawProduction(t) : t \in PipelineProductionTables}

StageAfter(frame, reached) == IF frame.status = "ok" THEN reached ELSE "raised"

\* prices_df = load_raw_prices(raw_data_dir)
StepLoadPrices ==
    /\ stage = "idle"
    /\ \E frame \in PipelinePriceFrames :
          /\ prices_df' = frame
          /\ stage' = StageAfter(frame, "prices")
    /\ UNCHANGED <<cons_df, prod_df, merged_data, output>>
    /\ UNCHANGED <<gapVars, normVars>>

\* cons_df = load_raw_consumption(raw_data_dir)
StepLoadConsumption ==
    /\ stage = "prices"
    /\ \E frame \in PipelineConsumptionFrames :
          /\ cons_df' = frame
          /\ stage' = StageAfter(frame, "consumption")
    /\ UNCHANGED <<prices_df, prod_df, merged_data, output>>
    /\ UNCHANGED <<gapVars, normVars>>

\* prod_df = load_raw_production(raw_data_dir)
StepLoadProduction ==
    /\ stage = "consumption"
    /\ \E frame \in PipelineProductionFrames :
          /\ prod_df' = frame
          /\ stage' = StageAfter(frame, "production")
    /\ UNCHANGED <<prices_df, cons_df, merged_data, output>>
    /\ UNCHANGED <<gapVars, normVars>>

\* the two merges, the replace and the return
StepMergeAndReturn ==
    /\ stage = "production"
    /\ LET merged == MergeGeneration(MergeLoad(prices_df.rows, cons_df.rows), prod_df)
       IN /\ merged_data' = merged
          /\ output' = Replace(merged)
    /\ stage' = "returned"
    /\ UNCHANGED <<prices_df, cons_df, prod_df>>
    /\ UNCHANGED <<gapVars, normVars>>

NextLoad ==
    StepLoadPrices \/ StepLoadConsumption \/ StepLoadProduction \/ StepMergeAndReturn

SpecLoad == Init /\ [][NextLoad]_vars

\* ------------------------------------------------- contains_datetime_gaps
\* The instants of the table handed to the last call, as the caller wrote it.
BeforeTimes == {Instant(before[i]) : i \in 1..Len(before)}
BeforeInstantSeq == [i \in 1..Len(before) |-> Instant(before[i])]
Returned == calls >= 1 /\ result.status = "ok"

C2_AtMostOneTimestampNoGaps ==
    (calls >= 1 /\ Parseable(before) /\ Cardinality(BeforeTimes) <= 1) =>
        /\ result.status = "ok"
        /\ result.flag = FALSE
        /\ result.missing = <<>>

\* Tables holding the same set of cells as t: one step of reordering (two
\* adjacent rows exchanged) or of duplication (a row repeated).  Every table
\* with the same set of cells is reached from t by such steps and their
\* inverses, and the invariant below is checked at every table.
SwapRows(t, i) == [j \in 1..Len(t) |-> IF j = i THEN t[i + 1]
                                        ELSE IF j = i + 1 THEN t[i] ELSE t[j]]
SameSetNeighbours(t) ==
    {SwapRows(t, i) : i \in 1..Len(t) - 1} \cup {Append(t, t[i]) : i \in 1..Len(t)}

\* C3: the result depends only on the set of timestamps in the column: a
\* table with the rows permuted or with rows duplicated gives the same flag
\* and the same missing sequence at the same frequency.
C3_ResultDependsOnTimestampSetOnly ==
    (calls >= 1 /\ Parseable(before)) =>
        \A d2 \in SameSetNeighbours(before) :
            LET o == GapsOutcome(d2, frequency)
            IN /\ o.status = result.status
               /\ o.flag = result.flag
               /\ o.missing = result.missing

C3_Witness ==
    /\ Returned
    /\ result.missing # <<>>
    /\ \E i, j \in 1..Len(before) : i < j /\ Instant(before[i]) > Instant(before[j])
    /\ \E i, j \in 1..Len(before) : i # j /\ before[i] = before[j]

\* C6: a call leaves the caller's table unchanged: the values and types of
\* the timestamp column and the order of the rows are those before the call.
C6_CallerTableUnchanged ==
    calls >= 1 => df = before

WellFormedInterval(mtu, secs) ==
    /\ Len(mtu) = 3
    /\ mtu[1].k = "dt" /\ mtu[1].secs = secs
    /\ mtu[2] = Sep
    /\ mtu[3].k = "dt" /\ mtu[3].secs = secs

\* The precision of the source a normalizer reads.
WithSeconds == fn \in {"prices", "production"}

\* The rows a normalizer parses: load_raw_prices parses the rows of
\* "Sequence Sequence 1" only, the other two parse every row.
ParsedRows ==
    IF fn = "prices"
    THEN SelectSeq(raw, LAMBDA r : r.sequence = "Sequence Sequence 1")
    ELSE raw

\* C7: interval parsing is fail-fast: if in any row the "MTU (UTC)" string
\* lacks the separator or has a side that does not match the source's format,
\* the normalizer ends with an error and returns no table; no output row
\* carries a missing start_ts_utc or end_ts_utc.
C7_IntervalParsingFailsFast ==
    fn # "none" =>
        /\ (\E i \in 1..Len(ParsedRows) :
               ~WellFormedInterval(ParsedRows[i].mtu, WithSeconds))
              => norm.status # "ok"
        /\ norm.status = "ok" =>
              \A n \in 1..Len(norm.rows) :
                  norm.rows[n].start_ts_utc # NaT /\ norm.rows[n].end_ts_utc # NaT

\* The interval an input row of load_raw_production shows.
RawKey(r) == <<r.mtu[1].t, r.mtu[3].t>>
AllowListed(r) == r.production_type \in {"Solar", "Wind Offshore", "Wind Onshore"}
AllowListedRows == {i \in 1..Len(raw) : AllowListed(raw[i])}

ExpectedSuffix(ty) ==
    CASE ty = "Solar" -> <<"s", "o", "l", "a", "r">>
      [] ty = "Wind Offshore" ->
            <<"w", "i", "n", "d", "_", "o", "f", "f", "s", "h", "o", "r", "e">>
      [] ty = "Wind Onshore" ->
            <<"w", "i", "n", "d", "_", "o", "n", "s", "h", "o", "r", "e">>
ExpectedColumn(ty) ==
    <<"a", "c", "t", "u", "a", "l", "_", "g", "e", "n", "e", "r", "a", "t",
      "i", "o", "n", "_", "m", "w", "_">> \o ExpectedSuffix(ty)

ProductionInputWellFormed ==
    /\ fn = "production"
    /\ raw # <<>>
    /\ \A i \in 1..Len(raw) : WellFormedInterval(raw[i].mtu, TRUE)

\* C8: load_raw_production reshapes long to wide: for input rows with
\* pairwise distinct (interval, production_type) the output has one row per
\* interval of an allow-listed row, one column per allow-listed type present,
\* named "actual_generation_mw_" and the lower-cased, underscore-joined
\* label, and the cell at (interval, type) is the generation value of the
\* input row with that interval and type, missing when there is none; rows
\* of other types contribute no row, column or value.
C8_ProductionLongToWide ==
    (/\ ProductionInputWellFormed
     /\ \A i, j \in 1..Len(raw) :
           (i # j) => (RawKey(raw[i]) # RawKey(raw[j])
                          \/ raw[i].production_type # raw[j].production_type))
    => /\ norm.status = "ok"
       /\ LET keys == {RawKey(raw[i]) : i \in AllowListedRows}
              types == {raw[i].production_type : i \in AllowListedRows}
          IN /\ Len(norm.rows) = Cardinality(keys)
             /\ {Key(norm.rows[n]) : n \in 1..Len(norm.rows)} = keys
             /\ Len(norm.cols) = Cardinality(types)
             /\ Range(norm.cols) = {ExpectedColumn(ty) : ty \in types}
             /\ \A n \in 1..Len(norm.rows) :
                   /\ Len(norm.rows[n].gen) = Len(norm.cols)
                   /\ \A m \in 1..Len(norm.cols) :
                         LET src == {i \in AllowListedRows :
                                        /\ RawKey(raw[i]) = Key(norm.rows[n])
                                        /\ ExpectedColumn(raw[i].production_type)
                                              = norm.cols[m]}
                         IN IF src = {} THEN norm.rows[n].gen[m] = NaN
                            ELSE \A i \in src : norm.rows[n].gen[m] = raw[i].value

C8_Witness ==
    /\ ProductionInputWellFormed
    /\ norm.status = "ok"
    /\ \E i, j \in 1..Len(raw) :
          /\ raw[i].production_type = "Solar"
          /\ raw[j].production_type = "Wind Offshore"
          /\ RawKey(raw[i]) # RawKey(raw[j])
    /\ Len(norm.rows) = 2
    /\ norm.cols = <<ExpectedColumn("Solar"), ExpectedColumn("Wind Offshore")>>
    /\ \E n \in 1..2 : norm.rows[n].gen[1] = NaN /\ norm.rows[n].gen[2] # NaN

\* C10: load_raw_production never returns a table with a repeated interval
\* key: it raises when two allow-listed rows share interval and production
\* type, and otherwise every (start_ts_utc, end_ts_utc) pair is in exactly one
\* row of its output.
C10_ProductionKeysUnique ==
    fn = "production" =>
        /\ norm.status = "ok" =>
              \A i, j \in 1..Len(norm.rows) :
                  (i # j) => Key(norm.rows[i]) # Key(norm.rows[j])
        /\ (/\ ProductionInputWellFormed
            /\ \E i, j \in AllowListedRows :
                  /\ i # j
                  /\ RawKey(raw[i]) = RawKey(raw[j])
                  /\ raw[i].production_type = raw[j].production_type)
              => norm.status = "ValueError"

C10_Witness ==
    /\ ProductionInputWellFormed
    /\ norm.status = "ok"
    /\ \E i, j \in AllowListedRows :
          /\ i # j
          /\ RawKey(raw[i]) = RawKey(raw[j])
          /\ raw[i].production_type # raw[j].production_type
    /\ Len(norm.rows) = 1
    /\ Len(norm.cols) = 2

\* ------------------------------------------------- load_raw_data_from_dir
Count(rows, key) == Cardinality({i \in 1..Len(rows) : Key(rows[i]) = key})
KeysOf(rows) == {Key(rows[i]) : i \in 1..Len(rows)}
AtLeastOne(n) == IF n = 0 THEN 1 ELSE n

\* C4 as stated: every interval key of the normalized price table is in
\* exactly one output row, whatever rows (none, one or several with that key)
\* the load and generation tables hold, and no other key is in the output.
C4_EveryPriceKeyExactlyOnce ==
    stage = "returned" =>
        /\ \A key \in KeysOf(prices_df.rows) : Count(output, key) = 1
        /\ KeysOf(output) \subseteq KeysOf(prices_df.rows)

\* C4 amended: a key of the price table is in as many output rows as its
\* rows in the price table times its rows in the load table (one when the
\* load table has none); the generation table holds a key at most once.  So
\* it is in at least one row, in exactly one when it is once in the price
\* table and at most once in the load table, and no other key is in the
\* output.
C4_PriceKeysFanOutByLoadRows ==
    stage = "returned" =>
        /\ \A key \in KeysOf(prices_df.rows) :
              /\ Count(prod_df.rows, key) <= 1
              /\ Count(output, key) =
                    Count(prices_df.rows, key) * AtLeastOne(Count(cons_df.rows, key))
              /\ Count(output, key) >= 1
              /\ (Count(prices_df.rows, key) = 1 /\ Count(cons_df.rows, key) <= 1)
                    => Count(output, key) = 1
        /\ KeysOf(output) = KeysOf(prices_df.rows)

C4_Witness ==
    /\ stage = "returned"
    /\ \E k1, k2 \in KeysOf(prices_df.rows) :
          /\ Count(prices_df.rows, k1) = 1
          /\ Count(cons_df.rows, k1) = 2
          /\ Count(output, k1) = 2
          /\ Count(cons_df.rows, k2) = 0
          /\ Count(prod_df.rows, k2) = 0
          /\ Count(output, k2) = 1

ValueCells(r) == <<r.da_price_eur_mwh, r.actual_load_mw>> \o r.gen

\* C5: in the returned table no cell holds "n/e" or "-": a cell that held
\* one after the two merges holds the missing-value marker (not zero), every
\* other cell is unchanged, and no row is removed or added.
C5_SentinelsBecomeMissing ==
    stage = "returned" =>
        /\ Len(output) = Len(merged_data)
        /\ \A i \in 1..Len(output) :
              /\ Key(output[i]) = Key(merged_data[i])
              /\ Len(ValueCells(output[i])) = Len(ValueCells(merged_data[i]))
              /\ \A c \in 1..Len(ValueCells(output[i])) :
                    LET was == ValueCells(merged_data[i])[c]
                        is == ValueCells(output[i])[c]
                    IN /\ is \notin {"n/e", "-"}
                       /\ (was \in {"n/e", "-"}) => (is = "NaN")
                       /\ (was \notin {"n/e", "-"}) => (is = was)

C5_Witness ==
    /\ stage = "returned"
    /\ \E i, j \in 1..Len(merged_data) :
          /\ merged_data[i].da_price_eur_mwh = "n/e"
          /\ output[i].da_price_eur_mwh = "NaN"
          /\ merged_data[j].actual_load_mw = "-"
          /\ output[j].actual_load_mw = "NaN"
          /\ \E c \in 1..Len(merged_data[j].gen) :
                merged_data[j].gen[c] = "30" /\ output[j].gen[c] = "30"

=============================================================================
